---- MODULE Spec2Model ----
(***************************************************************************)
(* Model of analysis-scripts/bintools: prelink_binary.py (get_overlap,     *)
(* prelink_libs, main) and common.py (get_library_deps).                   *)
(*                                                                         *)
(* Addresses and sizes are integers (Python ints are unbounded, so there   *)
(* is no wrap-around); a mapping is the tuple <<start, size>> as in the    *)
(* code.  Python's % is floor modulo, as is the % of Integers.             *)
(***************************************************************************)
EXTENDS Integers, Sequences, FiniteSets, TLC

\* ---------------------------------------------------------------- bounds
MaxCeil == 4
MaxStart == 2
MaxMapSize == 1
MaxMaps == 2
MainMaps == 1
MaxLibs == 2
MaxSpan == 2
MaxAlign == 2
MaxSegs == 2
MaxLines == 2

VARIABLES
    pc,                 \* position in the code being run
    \* prelink_libs
    existing_mappings,  \* binary_mappings of the executable, in file order
    ceiling,            \* the baseaddr argument, int(args.base_addr, 16)
    baseaddr,           \* the running address
    align, size,        \* layout of the library being read or placed
    lib,                \* number of libraries the for loop has taken so far
    retried,            \* the while loop took the overlap branch last
    cand,               \* the address last passed to get_overlap
    placed,             \* the copies made and 'prelink -r' calls issued
    \* main
    in_place, set_rpath,\* args.in_place, args.set_rpath
    bak,                \* '<binary>.bak' exists
    newprog,            \* what newprog names: the original or the copy
    patched,            \* patchelf invocations: <<operation, target>>
    \* a call of get_overlap
    arg_mapping, arg_others, ov_result,
    \* the segment loop of prelink_libs
    segs,               \* program headers of the library file, in file order
    nseg,               \* segments iterated so far
    \* get_library_deps and its caller
    lines,              \* ldd's output, split at newlines
    nline,              \* lines iterated so far
    deps,               \* the list being built
    missing,            \* the name in the exception raised
    interp,             \* interpreter path from get_binary_info
    libs                \* main's set of libraries

SeqsUpTo(S, n) == UNION {[1..k -> S] : k \in 0..n}

\* values of --base-addr: the two highest addresses, one odd and one even
Ceilings == (MaxCeil - 1)..MaxCeil

\* (p_vaddr, p_memsz) pairs that get_binary_info can collect
Mappings == (0..MaxStart) \X (0..MaxMapSize)

\* values of p_align: 0 or a power of two (0 and 1 stand for no alignment)
Aligns == {0} \cup {a \in 1..MaxAlign : \E k \in 0..MaxAlign : a = 2^k}

\* program headers of an ELF file, ending at MaxSpan at most
Segments ==
    {s \in [p_type : {"PT_LOAD", "PT_NOTE"}, p_vaddr : 0..MaxSpan,
            p_memsz : 0..MaxSpan, p_align : Aligns] :
        s.p_vaddr + s.p_memsz <= MaxSpan}

Files == SeqsUpTo(Segments, MaxSegs)

\* ------------------------------------------------------------- get_overlap
\* the test of lines 54-56, without its third disjunct
OverlapsNoContain(start, end, m_start, m_end) ==
    \/ (start >= m_start /\ start < m_end)
    \/ (end > m_start /\ end <= m_end)

\* the condition of the if in get_overlap
Overlaps(start, end, m_start, m_end) ==
    \/ (start >= m_start /\ start < m_end)
    \/ (end > m_start /\ end <= m_end)
    \/ (start <= m_start /\ end >= m_end)

\* the loop over other_mappings[::-1], from position i downwards; yields the
\* position of the returned element, 0 when the loop falls through (None)
RECURSIVE ScanBack(_, _, _)
ScanBack(mapping, other_mappings, i) ==
    IF i = 0 THEN 0
    ELSE LET start == mapping[1]
             end == mapping[1] + mapping[2]
             m_start == other_mappings[i][1]
             m_end == other_mappings[i][1] + other_mappings[i][2]
         IN IF Overlaps(start, end, m_start, m_end) THEN i
            ELSE ScanBack(mapping, other_mappings, i - 1)

\* get_overlap: position in other_mappings of the mapping returned, 0 for None
get_overlap(mapping, other_mappings) ==
    ScanBack(mapping, other_mappings, Len(other_mappings))

\* ------------------------------------------------------- layout extraction
\* one iteration of the loop over e.iter_segments(); acc is <<align, size>>
SegStep(acc, seg) ==
    IF seg.p_type # "PT_LOAD" THEN acc
    ELSE << IF seg.p_align > acc[1] THEN seg.p_align ELSE acc[1],
            seg.p_vaddr + seg.p_memsz >>

RECURSIVE ScanFrom(_, _, _)
ScanFrom(acc, phdrs, i) ==
    IF i > Len(phdrs) THEN acc ELSE ScanFrom(SegStep(acc, phdrs[i]), phdrs, i + 1)

\* align, size of a library file, as lines 74-81 leave them
ScanSegments(phdrs) == ScanFrom(<<0, 0>>, phdrs, 1)

Layouts == {ScanSegments(f) : f \in Files}

\* ------------------------------------------------------------ prelink_libs
\* alignment rounding that is left out
RoundDownNot(addr, al) == addr

\* lines 89-90: if baseaddr % align: baseaddr -= baseaddr % align
RoundDown(addr, al) == IF addr % al # 0 THEN addr - (addr % al) ELSE addr

\* a retry that continues above the overlapping mapping
RetryAbove(m, sz) == m[1] + m[2]

\* line 93: baseaddr = overlap[0] - size
RetryBelow(m, sz) == m[1] - sz

\* a validity check that is off by one
InvalidBaseOffByOne(addr) == addr < -1

\* line 97: if baseaddr < 0
InvalidBase(addr) == addr < 0

NoProg == "none"

placeVars == <<existing_mappings, ceiling, baseaddr, lib, retried, cand, placed>>
progVars == <<in_place, set_rpath, bak, newprog, patched>>
ovVars == <<arg_mapping, arg_others, ov_result>>
scanVars == <<segs, nseg>>
depsVars == <<lines, nline, deps, missing, interp, libs>>

vars == <<pc, align, size, placeVars, progVars, ovVars, scanVars, depsVars>>

\* values of the variables of code that is not running
PlaceIdle ==
    /\ existing_mappings = << >> /\ ceiling = 0 /\ baseaddr = 0 /\ lib = 0
    /\ retried = FALSE /\ cand = 0 /\ placed = << >>
ProgIdle ==
    /\ in_place = FALSE /\ set_rpath = FALSE /\ bak = FALSE
    /\ newprog = NoProg /\ patched = << >>
OvIdle == arg_mapping = <<0, 0>> /\ arg_others = << >> /\ ov_result = 0
ScanIdle == segs = << >> /\ nseg = 0
DepsIdle ==
    /\ lines = << >> /\ nline = 0 /\ deps = << >> /\ missing = ""
    /\ interp = "" /\ libs = {}

\* ------------------------------------------------- prelink_libs, stepwise
\* state at the call prelink_libs(libs, outdir, existing_mappings, baseaddr)
InitPlace(maxmaps) ==
    /\ pc = "for_lib"
    /\ existing_mappings \in SeqsUpTo(Mappings, maxmaps)
    /\ ceiling \in Ceilings
    /\ baseaddr = ceiling
    /\ align = 0 /\ size = 0
    /\ lib = 0
    /\ retried = FALSE
    /\ cand = 0
    /\ placed = << >>
    /\ bak = FALSE
    /\ newprog = NoProg
    /\ patched = << >>
    /\ OvIdle /\ ScanIdle /\ DepsIdle

Init == InitPlace(MaxMaps) /\ in_place = FALSE /\ set_rpath = FALSE

\* lines 70-83: the for loop takes the next library, reads its layout and
\* lowers the running address by its size
OpenLib ==
    /\ pc = "for_lib"
    /\ lib < MaxLibs
    /\ \E l \in Layouts :
         /\ align' = l[1]
         /\ size' = l[2]
         /\ baseaddr' = baseaddr - l[2]
    /\ lib' = lib + 1
    /\ retried' = FALSE
    /\ pc' = "search"
    /\ UNCHANGED <<existing_mappings, ceiling, cand, placed>>
    /\ UNCHANGED <<progVars, ovVars, scanVars, depsVars>>

\* line 89 with align = 0: the modulo raises ZeroDivisionError
SearchZeroDiv ==
    /\ pc = "search"
    /\ align = 0
    /\ pc' = "err_zerodiv"
    /\ UNCHANGED <<align, size, placeVars, progVars, ovVars, scanVars, depsVars>>

\* lines 88-93: an iteration of the while loop that finds an overlap
SearchRetry ==
    /\ pc = "search"
    /\ align # 0
    /\ LET a == RoundDown(baseaddr, align)
           o == get_overlap(<<a, size>>, existing_mappings)
       IN /\ o # 0
          /\ cand' = a
          /\ baseaddr' = RetryBelow(existing_mappings[o], size)
    /\ retried' = TRUE
    /\ UNCHANGED <<pc, align, size, existing_mappings, ceiling, lib, placed>>
    /\ UNCHANGED <<progVars, ovVars, scanVars, depsVars>>

\* lines 88-95: the iteration of the while loop that finds no overlap
SearchFound ==
    /\ pc = "search"
    /\ align # 0
    /\ LET a == RoundDown(baseaddr, align)
           o == get_overlap(<<a, size>>, existing_mappings)
       IN /\ o = 0
          /\ cand' = a
          /\ baseaddr' = a
    /\ pc' = "found"
    /\ UNCHANGED <<align, size, existing_mappings, ceiling, lib, retried, placed>>
    /\ UNCHANGED <<progVars, ovVars, scanVars, depsVars>>

\* lines 97-99: raise Exception("Invalid base address ...")
RaiseInvalid ==
    /\ pc = "found"
    /\ InvalidBase(baseaddr)
    /\ pc' = "err_invalid"
    /\ UNCHANGED <<align, size, placeVars, progVars, ovVars, scanVars, depsVars>>

\* the library is taken as placed although nothing is copied or relocated
RelocateForgotten ==
    /\ pc = "found"
    /\ ~InvalidBase(baseaddr)
    /\ pc' = "for_lib"
    /\ UNCHANGED <<align, size, placeVars, progVars, ovVars, scanVars, depsVars>>

\* lines 101-106: print, copy the library and run 'prelink -r'; ex raises
\* when the command exits non-zero
Relocate ==
    /\ pc = "found"
    /\ ~InvalidBase(baseaddr)
    /\ placed' = Append(placed, [addr |-> baseaddr, size |-> size, align |-> align])
    /\ \E ok \in BOOLEAN : pc' = IF ok THEN "for_lib" ELSE "err_tool"
    /\ UNCHANGED <<align, size, existing_mappings, ceiling, baseaddr, lib, retried, cand>>
    /\ UNCHANGED <<progVars, ovVars, scanVars, depsVars>>

\* the for loop is exhausted and prelink_libs returns
Return ==
    /\ pc = "for_lib"
    /\ pc' = "returned"
    /\ UNCHANGED <<align, size, placeVars, progVars, ovVars, scanVars, depsVars>>

\* prelink_libs, called with any libs, existing_mappings and baseaddr
Next ==
    \/ OpenLib
    \/ SearchZeroDiv
    \/ SearchRetry
    \/ SearchFound
    \/ RaiseInvalid
    \/ Relocate
    \/ Return

Spec == Init /\ [][Next]_vars

\* ------------------------------------------- main, from line 130 onwards
InitMain == InitPlace(MainMaps) /\ in_place \in BOOLEAN /\ set_rpath \in BOOLEAN

\* the in-place branch without its backup copy
PrepareProgNoBackup ==
    /\ pc = "for_lib"
    /\ lib >= 1
    /\ newprog' = IF in_place THEN "original" ELSE "copy"
    /\ pc' = "set_interp"
    /\ UNCHANGED <<align, size, placeVars, in_place, set_rpath, bak, patched>>
    /\ UNCHANGED <<ovVars, scanVars, depsVars>>

\* lines 130-139: the call of prelink_libs returns (libs holds at least the
\* interpreter) and main makes the backup or the working copy
PrepareProg ==
    /\ pc = "for_lib"
    /\ lib >= 1
    /\ IF in_place
       THEN bak' = TRUE /\ newprog' = "original"
       ELSE bak' = bak /\ newprog' = "copy"
    /\ pc' = "set_interp"
    /\ UNCHANGED <<align, size, placeVars, in_place, set_rpath, patched>>
    /\ UNCHANGED <<ovVars, scanVars, depsVars>>

\* lines 140-141: patchelf --set-interpreter
SetInterpreter ==
    /\ pc = "set_interp"
    /\ patched' = Append(patched, <<"set-interpreter", newprog>>)
    /\ \E ok \in BOOLEAN :
         pc' = IF ~ok THEN "err_tool" ELSE IF set_rpath THEN "set_rpath" ELSE "exit"
    /\ UNCHANGED <<align, size, placeVars, in_place, set_rpath, bak, newprog>>
    /\ UNCHANGED <<ovVars, scanVars, depsVars>>

\* lines 144-146: patchelf --set-rpath
SetRpath ==
    /\ pc = "set_rpath"
    /\ patched' = Append(patched, <<"set-rpath", newprog>>)
    /\ \E ok \in BOOLEAN : pc' = IF ok THEN "exit" ELSE "err_tool"
    /\ UNCHANGED <<align, size, placeVars, in_place, set_rpath, bak, newprog>>
    /\ UNCHANGED <<ovVars, scanVars, depsVars>>

NextMain ==
    \/ OpenLib
    \/ SearchZeroDiv
    \/ SearchRetry
    \/ SearchFound
    \/ RaiseInvalid
    \/ Relocate
    \/ PrepareProg
    \/ SetInterpreter
    \/ SetRpath

SpecMain == InitMain /\ [][NextMain]_vars

\* ------------------------------------------------ properties of the placement
\* the half-open intersection test: [s1, e1) and [s2, e2) share an address
Intersects(s1, e1, s2, e2) == s1 < e2 /\ e1 > s2

PlacedEnd(i) == placed[i].addr + placed[i].size

RECURSIVE SumSizes(_)
SumSizes(ps) == IF ps = << >> THEN 0 ELSE Head(ps).size + SumSizes(Tail(ps))

\* C1: every range [addr, addr+size) handed to 'prelink -r' intersects, under
\* the half-open test, neither the range of any other relocated library nor
\* any range of existing_mappings
C1_NoOverlap ==
    /\ \A i, j \in 1..Len(placed) :
         i # j => ~Intersects(placed[i].addr, PlacedEnd(i), placed[j].addr, PlacedEnd(j))
    /\ \A i \in 1..Len(placed) : \A k \in 1..Len(existing_mappings) :
         ~Intersects(placed[i].addr, PlacedEnd(i), existing_mappings[k][1],
                     existing_mappings[k][1] + existing_mappings[k][2])

\* prelink_libs returned after placing two non-empty libraries, the second
\* after an overlap retry, around two existing mappings
C1_Witness ==
    /\ pc = "returned"
    /\ Len(placed) = 2
    /\ placed[1].size > 0 /\ placed[2].size > 0
    /\ retried
    /\ Len(existing_mappings) = 2

\* C2: every address handed to 'prelink -r' is a multiple of the library's
\* alignment, also after overlap retries
C2_Aligned ==
    \A i \in 1..Len(placed) :
        placed[i].align # 0 /\ placed[i].addr % placed[i].align = 0

\* a library of alignment 2 was relocated after a retry whose address
\* 'overlap[0] - size' was odd and had to be rounded again
C2_Witness ==
    /\ pc = "for_lib"
    /\ retried
    /\ Len(placed) >= 1
    /\ LET p == placed[Len(placed)]
       IN /\ p.align = 2
          /\ \E k \in 1..Len(existing_mappings) :
               /\ (existing_mappings[k][1] - p.size) % 2 = 1
               /\ p.addr = existing_mappings[k][1] - p.size - 1

\* C3: no negative address is handed to 'prelink -r': a search that ends
\* below zero can only raise the invalid-address error, which leaves the
\* failing library unrelocated, and the libraries relocated fit below the
\* ceiling
C3_NoNegativeBase ==
    /\ \A i \in 1..Len(placed) : placed[i].addr >= 0
    /\ (pc = "found" /\ baseaddr < 0) => (ENABLED RaiseInvalid /\ ~ENABLED Relocate)
    /\ pc = "err_invalid" => (baseaddr < 0 /\ Len(placed) = lib - 1)
    /\ SumSizes(placed) <= ceiling

\* the second library's search ended below zero and raised, after the first
\* was relocated
C3_Witness ==
    /\ pc = "err_invalid"
    /\ baseaddr < 0
    /\ Len(placed) = 1

\* the ranges relocated so far descend: each ends at or below the address of
\* the one before it, the first at or below the ceiling
C8_Descending ==
    \A i \in 1..Len(placed) :
        PlacedEnd(i) <= (IF i = 1 THEN ceiling ELSE placed[i - 1].addr)

\* C8: baseaddr never increases in any step, and each relocated range lies at
\* or below the address of the previously relocated one (the first below the
\* ceiling)
C8_Monotone == [][baseaddr' <= baseaddr]_vars /\ []C8_Descending

\* two libraries relocated, the second strictly below the first after an
\* overlap retry
C8_Witness ==
    /\ pc = "returned"
    /\ Len(placed) = 2
    /\ retried
    /\ placed[2].size > 0
    /\ PlacedEnd(2) < placed[1].addr

C10_RetryLowers ==
    (pc = "search" /\ retried) => baseaddr < cand

\* C6: patchelf is run on the original binary only with --in-place and only
\* when the .bak copy exists; without --in-place it is run on the copy only
C6_BackupFirst ==
    \A i \in 1..Len(patched) :
        /\ patched[i][2] = "original" => (in_place /\ bak)
        /\ ~in_place => patched[i][2] = "copy"

\* an in-place run that set the interpreter and the rpath of the original
C6_Witness ==
    /\ pc = "exit"
    /\ in_place /\ bak
    /\ Len(patched) = 2
    /\ patched[1] = <<"set-interpreter", "original">>
    /\ patched[2] = <<"set-rpath", "original">>

\* ------------------------------------------------- a call of get_overlap
\* the (baseaddr, size) tuples prelink_libs can pass: baseaddr may be negative
Candidates == ((0 - MaxSpan)..MaxCeil) \X (0..MaxSpan)

InitOverlap ==
    /\ pc = "call"
    /\ arg_mapping \in Candidates
    /\ arg_others \in SeqsUpTo(Mappings, MaxMaps)
    /\ ov_result = 0
    /\ align = 0 /\ size = 0
    /\ PlaceIdle /\ ProgIdle /\ ScanIdle /\ DepsIdle

\* get_overlap(mapping, other_mappings) runs and returns
CallGetOverlap ==
    /\ pc = "call"
    /\ ov_result' = get_overlap(arg_mapping, arg_others)
    /\ pc' = "called"
    /\ UNCHANGED <<align, size, arg_mapping, arg_others>>
    /\ UNCHANGED <<placeVars, progVars, scanVars, depsVars>>

NextOverlap == CallGetOverlap

SpecOverlap == InitOverlap /\ [][NextOverlap]_vars

\* positions of other_mappings whose range intersects mapping (half-open)
Hits(mapping, others) ==
    {k \in 1..Len(others) :
        Intersects(mapping[1], mapping[1] + mapping[2],
                   others[k][1], others[k][1] + others[k][2])}

\* C7: get_overlap returns None exactly when no range of other_mappings
\* intersects mapping under the half-open test, and otherwise the intersecting
\* range at the highest list position
C7_HalfOpenLast ==
    pc = "called" =>
        LET h == Hits(arg_mapping, arg_others)
        IN IF h = {} THEN ov_result = 0
           ELSE ov_result # 0 /\ \A k \in h : k <= ov_result /\ ov_result \in h

\* ------------------------------------------ the segment loop, stepwise
InitLayout ==
    /\ pc = "scan"
    /\ segs \in Files
    /\ nseg = 0
    /\ align = 0 /\ size = 0
    /\ PlaceIdle /\ ProgIdle /\ OvIdle /\ DepsIdle

\* lines 76-81: one iteration of the loop over e.iter_segments()
ScanSegment ==
    /\ pc = "scan"
    /\ nseg < Len(segs)
    /\ LET acc == SegStep(<<align, size>>, segs[nseg + 1])
       IN align' = acc[1] /\ size' = acc[2]
    /\ nseg' = nseg + 1
    /\ UNCHANGED <<pc, segs, placeVars, progVars, ovVars, depsVars>>

\* the loop over e.iter_segments() is exhausted
ScanDone ==
    /\ pc = "scan"
    /\ nseg = Len(segs)
    /\ pc' = "scanned"
    /\ UNCHANGED <<align, size, scanVars, placeVars, progVars, ovVars, depsVars>>

NextLayout == ScanSegment \/ ScanDone

SpecLayout == InitLayout /\ [][NextLayout]_vars

SetMax(S) == IF S = {} THEN 0 ELSE CHOOSE x \in S : \A y \in S : y <= x

LoadSegs(ss) == {i \in 1..Len(ss) : ss[i].p_type = "PT_LOAD"}

\* C4: after the scan, size is the maximum of p_vaddr + p_memsz and align the
\* maximum of p_align over the PT_LOAD segments, in whatever order they come
C4_LayoutIsMax ==
    pc = "scanned" =>
        /\ size = SetMax({segs[i].p_vaddr + segs[i].p_memsz : i \in LoadSegs(segs)})
        /\ align = SetMax({segs[i].p_align : i \in LoadSegs(segs)})

\* ------------------------------------------- get_library_deps, stepwise
\* A line of ldd's output is the text name \o tail: what stands before the
\* arrow (ldd indents it with a tab) and the rest.
LineNames == {"", "\tlibfoo.so", "\tlibc.so.6"}
LineTails == {"", " => not found", " => /lib/libc.so.6 (0x7f00)",
              " => /opt/lib/libfoo.so (0x7f10)", " (0x7f00)"}
LddLines == [name : LineNames, tail : LineTails]
InterpPaths == {"/lib64/ld-linux-x86-64.so.2", "/lib/libc.so.6"}

\* the text before the arrow matches '.*.so.*': a character followed by "so"
HasSoName(name) == name \in {"\tlibfoo.so", "\tlibc.so.6"}

\* str.strip() of the names above
Strip(name) ==
    CASE name = "\tlibfoo.so" -> "libfoo.so"
      [] name = "\tlibc.so.6" -> "libc.so.6"
      [] OTHER -> name

\* what '(/.*\.so[^ ]*)' captures after ' => ': the absolute path up to the
\* first blank after its last ".so"; "" when that part does not match
PathIn(tail) ==
    CASE tail = " => /lib/libc.so.6 (0x7f00)" -> "/lib/libc.so.6"
      [] tail = " => /opt/lib/libfoo.so (0x7f10)" -> "/opt/lib/libfoo.so"
      [] OTHER -> ""

\* LDD_NOT_FOUND_REGEX.search(l)
LDD_NOT_FOUND_REGEX(l) == HasSoName(l.name) /\ l.tail = " => not found"

\* LDD_REGEX.search(l)
LDD_REGEX(l) == HasSoName(l.name) /\ PathIn(l.tail) # ""

InitDeps ==
    /\ pc = "ldd"
    /\ lines = << >>
    /\ nline = 0
    /\ deps = << >>
    /\ missing = ""
    /\ interp \in InterpPaths
    /\ libs = {}
    /\ align = 0 /\ size = 0
    /\ PlaceIdle /\ ProgIdle /\ OvIdle /\ ScanIdle

\* line 63-64: ldd runs and its output is split into lines
RunLdd ==
    /\ pc = "ldd"
    /\ \E out \in SeqsUpTo(LddLines, MaxLines) : lines' = out
    /\ pc' = "lines"
    /\ UNCHANGED <<nline, deps, missing, interp, libs>>
    /\ UNCHANGED <<align, size, placeVars, progVars, ovVars, scanVars>>

\* line 63: ldd exits non-zero and ex raises
LddFails ==
    /\ pc = "ldd"
    /\ pc' = "err_tool"
    /\ UNCHANGED <<align, size, depsVars, placeVars, progVars, ovVars, scanVars>>

\* a 'not found' line that is passed over
DepsRaiseSwallowed ==
    /\ pc = "lines"
    /\ nline < Len(lines)
    /\ LDD_NOT_FOUND_REGEX(lines[nline + 1])
    /\ nline' = nline + 1
    /\ UNCHANGED <<pc, lines, deps, missing, interp, libs>>
    /\ UNCHANGED <<align, size, placeVars, progVars, ovVars, scanVars>>

\* lines 65-69: the line matches LDD_NOT_FOUND_REGEX and the exception is raised
DepsRaise ==
    /\ pc = "lines"
    /\ nline < Len(lines)
    /\ LDD_NOT_FOUND_REGEX(lines[nline + 1])
    /\ missing' = Strip(lines[nline + 1].name)
    /\ pc' = "err_unresolved"
    /\ UNCHANGED <<lines, nline, deps, interp, libs>>
    /\ UNCHANGED <<align, size, placeVars, progVars, ovVars, scanVars>>

\* lines 71-74: the line matches LDD_REGEX and its path is appended
DepsAppend ==
    /\ pc = "lines"
    /\ nline < Len(lines)
    /\ ~LDD_NOT_FOUND_REGEX(lines[nline + 1])
    /\ LDD_REGEX(lines[nline + 1])
    /\ deps' = Append(deps, PathIn(lines[nline + 1].tail))
    /\ nline' = nline + 1
    /\ UNCHANGED <<pc, lines, missing, interp, libs>>
    /\ UNCHANGED <<align, size, placeVars, progVars, ovVars, scanVars>>

\* lines 71-73: the line matches neither expression
DepsSkip ==
    /\ pc = "lines"
    /\ nline < Len(lines)
    /\ ~LDD_NOT_FOUND_REGEX(lines[nline + 1])
    /\ ~LDD_REGEX(lines[nline + 1])
    /\ nline' = nline + 1
    /\ UNCHANGED <<pc, lines, deps, missing, interp, libs>>
    /\ UNCHANGED <<align, size, placeVars, progVars, ovVars, scanVars>>

\* line 75: return deps
DepsReturn ==
    /\ pc = "lines"
    /\ nline = Len(lines)
    /\ pc' = "deps_returned"
    /\ UNCHANGED <<align, size, depsVars, placeVars, progVars, ovVars, scanVars>>

\* prelink_binary.py lines 125-127: libs = set(); libs.update(deps); libs.add(interp)
UpdateLibs ==
    /\ pc = "deps_returned"
    /\ libs' = {deps[i] : i \in 1..Len(deps)} \cup {interp}
    /\ pc' = "libs_ready"
    /\ UNCHANGED <<lines, nline, deps, missing, interp>>
    /\ UNCHANGED <<align, size, placeVars, progVars, ovVars, scanVars>>

NextDeps ==
    \/ RunLdd
    \/ LddFails
    \/ DepsRaise
    \/ DepsAppend
    \/ DepsSkip
    \/ DepsReturn
    \/ UpdateLibs

SpecDeps == InitDeps /\ [][NextDeps]_vars

\* the two line shapes: 'name => not found' and 'name => /absolute/path'
Unresolved(l) == l.name # "" /\ l.tail = " => not found"
Resolved(l) == l.name # "" /\ l.tail \in {" => /lib/libc.so.6 (0x7f00)",
                                          " => /opt/lib/libfoo.so (0x7f10)"}

RECURSIVE ResolvedPaths(_)
ResolvedPaths(ls) ==
    IF ls = << >> THEN << >>
    ELSE IF Resolved(Head(ls))
         THEN <<PathIn(Head(ls).tail)>> \o ResolvedPaths(Tail(ls))
         ELSE ResolvedPaths(Tail(ls))

====
